---- MODULE Spec2Model ----
(***************************************************************************)
(* Model of the task-pipeline scheduler of src/main.py: the pipeline       *)
(* loader's grouping (read_pipeline_file), the dependency orderer          *)
(* (reorder_tasks, topological_sort, topological_sort_util) and the        *)
(* slot-constrained simulator (execute_tasks).                             *)
(*                                                                         *)
(* A task is a record [name, execution_time, dependencies]; a group is a   *)
(* record [name, tasks] (main.py keeps it as the list [[name], task, ...]);*)
(* the pipeline is the sequence of groups in first-seen order.             *)
(***************************************************************************)
EXTENDS Integers, Sequences, FiniteSets, TLC

\* ---------------------------------------------------------------- bounds
\* Durations range over 1..MaxDur, slot counts over 1..MaxCpu.
MaxDur == 2

MaxCpu == 2

\* The task names of the input file, in file order; an input holds a
\* non-empty prefix of them.  UnknownName is a dependency name no task has.
TaskNames == <<"A", "B", "C">>

UnknownName == "Z"

GroupNames == {"G1", "G2", "no_group"}

\* Each input declares at most two (task, dependency) pairs overall.
DepPairs(n) == (1..n) \X ({TaskNames[i] : i \in 1..n} \cup {UnknownName})

DepChoices(n) == {{}} \cup {{p, q} : p \in DepPairs(n), q \in DepPairs(n)}

\* ------------------------------------------------------- helper operators
Range(s) == {s[i] : i \in DOMAIN s}

RECURSIVE SumSeq(_)
SumSeq(s) == IF s = <<>> THEN 0 ELSE Head(s) + SumSeq(Tail(s))

\* Position of name n in the sequence of names s (list.index).
IndexOf(s, n) == CHOOSE i \in DOMAIN s : s[i] = n /\ \A j \in 1..(i-1) : s[j] # n

\* ------------------------------------------------------ read_pipeline_file
\* One parsed four-line record of the file: lines 26-29.
FlatTask(i, dur, grp, pairs) ==
    [name |-> TaskNames[i], execution_time |-> dur, group |-> grp,
     dependencies |-> {p[2] : p \in {q \in pairs : q[1] = i}}]

\* Lines 37-45: find the group of the record by name, create it at the end
\* of the pipeline when it is new, append the task to it.
AddTask(pl, ft) ==
    LET t == [name |-> ft.name, execution_time |-> ft.execution_time,
              dependencies |-> ft.dependencies]
    IN IF \E k \in DOMAIN pl : pl[k].name = ft.group
       THEN [k \in DOMAIN pl |->
                IF pl[k].name = ft.group
                THEN [pl[k] EXCEPT !.tasks = Append(@, t)] ELSE pl[k]]
       ELSE Append(pl, [name |-> ft.group, tasks |-> <<t>>])

RECURSIVE read_pipeline_file(_, _)
read_pipeline_file(flat, pl) ==
    IF flat = <<>> THEN pl
    ELSE read_pipeline_file(Tail(flat), AddTask(pl, Head(flat)))

\* The ordered groups are named in first-seen order: G1 is the first one the
\* file mentions (the names are labels; only "no_group" is special).
FirstSeenNaming(gs) ==
    \A i \in DOMAIN gs : gs[i] = "G2" => \E j \in 1..(i-1) : gs[j] = "G1"

\* The parsed records of an input file of n tasks.
Flat(n, gs, ds, e) == [i \in 1..n |-> FlatTask(i, ds[i], gs[i], e)]

\* An input of seven tasks, used with three slots: six tasks of G1, two of
\* which wait for the single no_group task F.
SevenTaskInput ==
    << [name |-> "A", execution_time |-> 2, group |-> "G1", dependencies |-> {}],
       [name |-> "B", execution_time |-> 2, group |-> "G1", dependencies |-> {}],
       [name |-> "C", execution_time |-> 2, group |-> "G1", dependencies |-> {"A"}],
       [name |-> "D", execution_time |-> 1, group |-> "G1", dependencies |-> {"F"}],
       [name |-> "E", execution_time |-> 2, group |-> "G1", dependencies |-> {}],
       [name |-> "F", execution_time |-> 1, group |-> "no_group", dependencies |-> {}],
       [name |-> "G", execution_time |-> 1, group |-> "G1", dependencies |-> {"F"}] >>

AllNames == {TaskNames[i] : i \in DOMAIN TaskNames}
              \cup {SevenTaskInput[i].name : i \in DOMAIN SevenTaskInput}

\* ------------------------------------------------------- topological sort
\* graph[dependency] = set of the group's tasks that declare it (lines
\* 69-75, a defaultdict(set): a name nobody depends on maps to {}).
Graph(tasks) ==
    [d \in AllNames \cup {UnknownName} |->
        {tasks[k].name : k \in {j \in DOMAIN tasks : d \in tasks[j].dependencies}}]

\* topological_sort_util, lines 51-56.  st = [visited, stack].  The loop of
\* line 53 iterates a Python set of strings, whose order the language does
\* not fix (string hashing is randomised per process): the operator returns
\* the set of all results the loop orders can produce.
RECURSIVE topological_sort_util(_, _, _)
RECURSIVE IterDependents(_, _, _)
\* Variant: the node is appended to the end of the stack (stack.append).
topological_sort_util_append(graph, node, st) ==
    LET st1 == [st EXCEPT !.visited = @ \cup {node}]
    IN { [s EXCEPT !.stack = Append(@, node)] :
            s \in IterDependents(graph, graph[node], st1) }

topological_sort_util(graph, node, st) ==
    LET st1 == [st EXCEPT !.visited = @ \cup {node}]
    IN { [s EXCEPT !.stack = <<node>> \o @] :
            s \in IterDependents(graph, graph[node], st1) }

IterDependents(graph, todo, st) ==
    IF todo = {} THEN {st}
    ELSE UNION { UNION { IterDependents(graph, todo \ {i}, s) :
                    s \in IF i \in st.visited THEN {st}
                          ELSE topological_sort_util(graph, i, st) } :
                 i \in todo }

\* topological_sort, lines 58-64: roots in the order of nodes.
RECURSIVE SortFrom(_, _, _, _)
SortFrom(graph, nodes, k, sts) ==
    IF k > Len(nodes) THEN sts
    ELSE SortFrom(graph, nodes, k + 1,
            UNION { IF nodes[k] \in s.visited THEN {s}
                    ELSE topological_sort_util(graph, nodes[k], s) : s \in sts })

topological_sort(graph, nodes) ==
    { s.stack : s \in SortFrom(graph, nodes, 1, {[visited |-> {}, stack |-> <<>>]}) }

\* Line 77: sorted(tasks, key=position of the name in sorted_tasks), a
\* stable sort; names are unique, so the keys are distinct.
SortByIndex(tasks, sorted_tasks) ==
    [k \in DOMAIN tasks |->
        CHOOSE t \in Range(tasks) :
            Cardinality({u \in Range(tasks) :
                IndexOf(sorted_tasks, u.name) < IndexOf(sorted_tasks, t.name)}) = k - 1]

\* Variant: the slice assignment starts at the header (group[0:] = ...), so
\* the first sorted task takes the place of the group name.
ReorderGroup_header(group) ==
    LET nodes == [k \in DOMAIN group.tasks |-> group.tasks[k].name]
    IN { LET sorted == SortByIndex(group.tasks, st)
         IN [name |-> sorted[1].name, tasks |-> Tail(sorted)] :
            st \in topological_sort(Graph(group.tasks), nodes) }

\* Lines 68-78 for one group: the set of orders the group can end with.
ReorderGroup(group) ==
    LET nodes == [k \in DOMAIN group.tasks |-> group.tasks[k].name]
    IN { [group EXCEPT !.tasks = SortByIndex(group.tasks, st)] :
            st \in topological_sort(Graph(group.tasks), nodes) }

\* reorder_tasks, lines 66-79: every group of the pipeline, in place.
RECURSIVE reorder_tasks(_)
reorder_tasks(pl) ==
    IF pl = <<>> THEN {<<>>}
    ELSE { <<g>> \o rest : g \in ReorderGroup(Head(pl)), rest \in reorder_tasks(Tail(pl)) }

\* ----------------------------------------------------------- program state
VARIABLES
    pc,                  \* "loaded" | "reordered" | "reordered_again" | "running" | "returned"
    input_list,          \* the pipeline as read_pipeline_file returned it
    first_order,         \* the pipeline after the first reorder_tasks call
    pipeline_list,       \* main's pipeline_list / reordered_pipeline_list
    cpu_count,           \* args.cpu_cores
    task_list,           \* execute_tasks: the ordered (non-no_group) groups
    no_group_tasks,      \* execute_tasks: the pool of incomplete no_group tasks
    task_time_remaining, \* execute_tasks: name -> remaining units (a dict)
    completed_tasks,     \* execute_tasks: set of completed names
    minute,              \* execute_tasks: the clock
    family_index,        \* execute_tasks: index (from 0) of the active group
    execution_map        \* execute_tasks: the trace, entries <<minute, tasks, group>>

vars == <<pc, input_list, first_order, pipeline_list, cpu_count, task_list,
          no_group_tasks, task_time_remaining, completed_tasks, minute,
          family_index, execution_map>>

simvars == <<task_list, no_group_tasks, task_time_remaining, completed_tasks,
             minute, family_index, execution_map>>

EmptyMap == [n \in {} |-> 0]

\* main, lines 166-170: the arguments are parsed and the file is read; an
\* empty pipeline makes main return before the orderer runs.
Init ==
    /\ pc = "loaded"
    /\ \/ /\ \E n \in 1..Len(TaskNames) :
              \E gs \in [1..n -> GroupNames], ds \in [1..n -> 1..MaxDur], e \in DepChoices(n) :
                 /\ FirstSeenNaming(gs)
                 /\ input_list = read_pipeline_file(Flat(n, gs, ds, e), <<>>)
          /\ cpu_count \in 1..MaxCpu
       \/ /\ input_list = read_pipeline_file(SevenTaskInput, <<>>)
          /\ cpu_count = 3
    /\ pipeline_list = input_list
    /\ first_order = <<>>
    /\ task_list = <<>>
    /\ no_group_tasks = <<>>
    /\ task_time_remaining = EmptyMap
    /\ completed_tasks = {}
    /\ minute = 0
    /\ family_index = 0
    /\ execution_map = <<>>

\* ------------------------------------------------------------ execute_tasks
AllTasks(pl) == UNION {Range(pl[k].tasks) : k \in DOMAIN pl}

\* Lines 86-87: the tasks of the first group named no_group, else [].
InitialPool(pl) ==
    LET ng == SelectSeq(pl, LAMBDA g : g.name = "no_group")
    IN IF ng = <<>> THEN <<>> ELSE ng[1].tasks

\* Line 88.
OrderedGroups(pl) == SelectSeq(pl, LAMBDA g : g.name # "no_group")

\* Lines 90-95.
InitialRemaining(pl) ==
    [n \in {t.name : t \in AllTasks(pl)} |->
        (CHOOSE t \in AllTasks(pl) : t.name = n).execution_time]

\* Variant: only the completed set is consulted.
Eligible_completed_only(task, done, current) ==
    \A dep \in task.dependencies : dep \in done

\* Variant: a dependency that names no task counts as satisfied.
Eligible_skip_unknown(task, done, current) ==
    /\ \A dep \in task.dependencies : dep \in done \/ dep = UnknownName
    /\ \A dep \in task.dependencies : dep \notin current

\* The dependency test of lines 113 and 134.
Eligible(task, done, current) ==
    /\ \A dep \in task.dependencies : dep \in done
    /\ \A dep \in task.dependencies : dep \notin current

\* Variant: a completed task keeps its entry in task_time_remaining (no del).
RunTask_keep(task, acc) ==
    LET left == acc.remaining[task.name] - 1
    IN [next      |-> Append(acc.next, task.name),
        current   |-> acc.current \cup {task.name},
        remaining |-> [acc.remaining EXCEPT ![task.name] = left],
        done      |-> IF left = 0 THEN acc.done \cup {task.name} ELSE acc.done]

\* Lines 114-121 and 135-142: schedule the task for this minute.  acc is
\* [next, current, remaining, done] = next_minute_tasks,
\* current_minute_tasks, task_time_remaining, completed_tasks.
RunTask(task, acc) ==
    LET left == acc.remaining[task.name] - 1
    IN [next      |-> Append(acc.next, task.name),
        current   |-> acc.current \cup {task.name},
        remaining |-> IF left = 0
                      THEN [n \in (DOMAIN acc.remaining) \ {task.name} |-> acc.remaining[n]]
                      ELSE [acc.remaining EXCEPT ![task.name] = left],
        done      |-> IF left = 0 THEN acc.done \cup {task.name} ELSE acc.done]

\* Variant: the scan stops one task late.
CpuLimitReached_late(next, cpus) == Len(next) = cpus + 1

\* The CPU limit test of line 124.
CpuLimitReached(next, cpus) == Len(next) = cpus

\* Lines 110-125: the scan of the active group from its i-th task on.
RECURSIVE ScanFamily(_, _, _, _)
\* Variant: the scan ends at the first task that is not eligible (break
\* where the code goes on to the next task).
ScanFamily_stop(tasks, i, acc, cpus) ==
    IF i > Len(tasks) THEN acc
    ELSE IF tasks[i].name \in acc.done THEN ScanFamily(tasks, i + 1, acc, cpus)
    ELSE IF Eligible(tasks[i], acc.done, acc.current)
         THEN LET acc2 == RunTask(tasks[i], acc)
              IN IF CpuLimitReached(acc2.next, cpus) THEN acc2
                 ELSE ScanFamily(tasks, i + 1, acc2, cpus)
    ELSE acc

ScanFamily(tasks, i, acc, cpus) ==
    IF i > Len(tasks) THEN acc
    ELSE IF tasks[i].name \in acc.done THEN ScanFamily(tasks, i + 1, acc, cpus)
    ELSE IF Eligible(tasks[i], acc.done, acc.current)
         THEN LET acc2 == RunTask(tasks[i], acc)
              IN IF CpuLimitReached(acc2.next, cpus) THEN acc2
                 ELSE ScanFamily(tasks, i + 1, acc2, cpus)
    ELSE ScanFamily(tasks, i + 1, acc, cpus)

\* Variant: the group is left as soon as one of its tasks is completed.
AdvanceFamily_any(groups, idx, done) ==
    IF \E k \in DOMAIN groups[idx + 1].tasks : groups[idx + 1].tasks[k].name \in done
    THEN idx + 1 ELSE idx

\* Lines 127-129: the index after the advancement check.
AdvanceFamily(groups, idx, done) ==
    IF \A k \in DOMAIN groups[idx + 1].tasks : groups[idx + 1].tasks[k].name \in done
    THEN idx + 1 ELSE idx

\* Variant: the pool is tried also when the slots are all used.
PoolTried_le(next, cpus, pool) == Len(next) <= cpus /\ pool # <<>>

\* Variant: the pool is tried only when the active group scheduled nothing.
PoolTried_idle(next, cpus, pool) == Len(next) = 0 /\ pool # <<>>

\* The guard of line 132.
PoolTried(next, cpus, pool) == Len(next) < cpus /\ pool # <<>>

\* Variant: the loop goes on only while an ordered group is left.
LoopCondition_groups(groups, idx, remaining) == idx < Len(groups)

\* Line 103.
LoopCondition(groups, idx, remaining) ==
    idx < Len(groups) \/ DOMAIN remaining # {}

\* Variant: the loop is never left early.
NothingScheduled_never(next) == FALSE

\* Variant: once the ordered groups are exhausted the entry keeps the name
\* of the last of them.
GroupLabel_last(groups, idx) ==
    IF idx < Len(groups) THEN groups[idx + 1].name
    ELSE IF groups = <<>> THEN "no_group" ELSE groups[Len(groups)].name

\* Line 146: the group label of the entry, from the index after the
\* advancement check.
GroupLabel(groups, idx) ==
    IF idx < Len(groups) THEN groups[idx + 1].name ELSE "no_group"

\* Line 150.
NothingScheduled(next) == next = <<>>

\* One iteration of the loop, lines 104-151, on the simulator state
\* s = [groups, pool, remaining, done, minute, idx, map, stop].
OneMinute(s, cpus) ==
    LET acc0 == [next |-> <<>>, current |-> {}, remaining |-> s.remaining, done |-> s.done]
        acc1 == IF s.idx < Len(s.groups)
                THEN ScanFamily(s.groups[s.idx + 1].tasks, 1, acc0, cpus) ELSE acc0
        idx1 == IF s.idx < Len(s.groups)
                THEN AdvanceFamily(s.groups, s.idx, acc1.done) ELSE s.idx
        head == s.pool[1]
        runs == PoolTried(acc1.next, cpus, s.pool) /\ Eligible(head, acc1.done, acc1.current)
        acc2 == IF runs THEN RunTask(head, acc1) ELSE acc1
        pool2 == IF runs /\ head.name \in acc2.done THEN Tail(s.pool) ELSE s.pool
        group_name == GroupLabel(s.groups, idx1)
    IN [groups    |-> s.groups,
        pool      |-> pool2,
        remaining |-> acc2.remaining,
        done      |-> acc2.done,
        minute    |-> s.minute + 1,
        idx       |-> idx1,
        map       |-> Append(s.map, <<s.minute + 1, acc2.next, group_name>>),
        stop      |-> NothingScheduled(acc2.next)
                      \/ ~LoopCondition(s.groups, idx1, acc2.remaining)]

\* Lines 84-102: the state before the first iteration.
StartState(pl) ==
    [groups    |-> OrderedGroups(pl),
     pool      |-> InitialPool(pl),
     remaining |-> InitialRemaining(pl),
     done      |-> {},
     minute    |-> 0,
     idx       |-> 0,
     map       |-> <<>>,
     stop      |-> FALSE]

\* The whole call: the state in which execute_tasks returns.
RECURSIVE RunToEnd(_, _)
RunToEnd(s, cpus) ==
    IF s.stop \/ ~LoopCondition(s.groups, s.idx, s.remaining) THEN s
    ELSE RunToEnd(OneMinute(s, cpus), cpus)

\* The number of trace entries of execute_tasks(pl, cpus).
Makespan(pl, cpus) == Len(RunToEnd(StartState(pl), cpus).map)

SimState ==
    [groups |-> task_list, pool |-> no_group_tasks, remaining |-> task_time_remaining,
     done |-> completed_tasks, minute |-> minute, idx |-> family_index,
     map |-> execution_map, stop |-> FALSE]

SetSim(s) ==
    /\ task_list' = s.groups
    /\ no_group_tasks' = s.pool
    /\ task_time_remaining' = s.remaining
    /\ completed_tasks' = s.done
    /\ minute' = s.minute
    /\ family_index' = s.idx
    /\ execution_map' = s.map

\* ----------------------------------------------------------------- actions
\* main, line 171: reorder_tasks(pipeline_list).
Reorder ==
    /\ pc = "loaded"
    /\ \E pl \in reorder_tasks(pipeline_list) :
          /\ pipeline_list' = pl
          /\ first_order' = pl
    /\ pc' = "reordered"
    /\ UNCHANGED <<input_list, cpu_count, simvars>>

\* The orderer applied to its own output.
ReorderAgain ==
    /\ pc = "reordered"
    /\ \E pl \in reorder_tasks(pipeline_list) : pipeline_list' = pl
    /\ pc' = "reordered_again"
    /\ UNCHANGED <<input_list, first_order, cpu_count, simvars>>

\* main, line 172, up to the loop of execute_tasks (lines 84-102).
StartExecute ==
    /\ pc = "reordered"
    /\ SetSim(StartState(pipeline_list))
    /\ pc' = IF LoopCondition(OrderedGroups(pipeline_list), 0, InitialRemaining(pipeline_list))
             THEN "running" ELSE "returned"
    /\ UNCHANGED <<input_list, first_order, pipeline_list, cpu_count>>

\* One time unit, lines 103-151, and the return of line 153 when the loop
\* ends with it.
Minute ==
    /\ pc = "running"
    /\ LET s == OneMinute(SimState, cpu_count)
       IN /\ SetSim(s)
          /\ pc' = IF s.stop THEN "returned" ELSE "running"
    /\ UNCHANGED <<input_list, first_order, pipeline_list, cpu_count>>

Next == Reorder \/ StartExecute \/ Minute

Spec == Init /\ [][Next]_vars

\* The orderer alone, applied twice.
NextOrder == Reorder \/ ReorderAgain

SpecOrder == Init /\ [][NextOrder]_vars

\* ------------------------------------------------- vocabulary of the claims
Names(pl) == {t.name : t \in AllTasks(pl)}

TaskOf(pl, n) == CHOOSE t \in AllTasks(pl) : t.name = n

\* Position of the task named n in the task sequence tasks (0 if absent).
PosIn(tasks, n) ==
    IF \E k \in DOMAIN tasks : tasks[k].name = n
    THEN CHOOSE k \in DOMAIN tasks : tasks[k].name = n ELSE 0

\* a depends on b through at most k declared dependencies, all inside tasks.
RECURSIVE DependsOn(_, _, _, _)
DependsOn(tasks, a, b, k) ==
    /\ k > 0
    /\ \E i \in DOMAIN tasks :
          /\ tasks[i].name = a
          /\ \/ b \in tasks[i].dependencies
             \/ \E j \in DOMAIN tasks :
                   /\ tasks[j].name \in tasks[i].dependencies
                   /\ DependsOn(tasks, tasks[j].name, b, k - 1)

\* The intra-group dependency graph of the task sequence has no cycle.
Acyclic(tasks) ==
    \A i \in DOMAIN tasks : ~DependsOn(tasks, tasks[i].name, tasks[i].name, Len(tasks))

\* The whole pipeline: every dependency names a task, and there is no cycle
\* (also none that crosses groups).
FlatTasks(pl) ==
    LET S == AllTasks(pl)
    IN CHOOSE q \in [1..Cardinality(S) -> S] : Range(q) = S

WellFormed(pl) ==
    /\ \A t \in AllTasks(pl) : t.dependencies \subseteq Names(pl)
    /\ Acyclic(FlatTasks(pl))

\* Every dependency that is a task of the same sequence sits earlier in it.
TopologicalOrder(tasks) ==
    \A i \in DOMAIN tasks : \A j \in DOMAIN tasks :
        tasks[j].name \in tasks[i].dependencies => j < i

\* The trace: the names listed in entry i, how often n ran up to unit t, and
\* whether n had reached remaining duration 0 by the end of unit t.
Listed(i) == Range(execution_map[i][2])

UnitsRun(n, t) == Cardinality({i \in 1..t : i <= Len(execution_map) /\ n \in Listed(i)})

CompletedBy(n, t) ==
    /\ n \in Names(pipeline_list)
    /\ UnitsRun(n, t) >= TaskOf(pipeline_list, n).execution_time

TotalDuration(pl) ==
    LET q == FlatTasks(pl) IN SumSeq([k \in DOMAIN q |-> q[k].execution_time])

LastEntryEmpty == execution_map # <<>> /\ execution_map[Len(execution_map)][2] = <<>>

\* ------------------------------------------------------------------ claims

\* C1: for every group whose intra-group dependency graph is acyclic, the
\* order reorder_tasks produces is a valid topological order: every
\* dependency that is a task of the same group sits at a strictly smaller
\* index than the task that declares it.
C1_TopologicalOrder ==
    pc # "loaded" =>
        \A k \in DOMAIN first_order :
            Acyclic(input_list[k].tasks) => TopologicalOrder(first_order[k].tasks)

\* A group was read with a task before its dependency and without a cycle,
\* and the orderer has run.
C1_Witness ==
    /\ pc = "reordered"
    /\ \E k \in DOMAIN input_list :
          /\ Acyclic(input_list[k].tasks)
          /\ ~TopologicalOrder(input_list[k].tasks)
          /\ Len(input_list[k].tasks) = 3

\* C2: whenever a task is listed in the trace entry of unit t, each of its
\* dependencies reached remaining duration 0 in a unit strictly before t,
\* whatever group the dependency is in.
C2_DependenciesEarlier ==
    \A i \in DOMAIN execution_map :
        /\ execution_map[i][1] = i
        /\ \A n \in Listed(i) :
              \A dep \in TaskOf(pipeline_list, n).dependencies : CompletedBy(dep, i - 1)

\* A task ran in the unit right after the one in which its dependency,
\* a task of another group, completed, with a slot to spare in that unit.
C2_Witness ==
    \E i \in DOMAIN execution_map : \E n \in Listed(i) :
        \E dep \in TaskOf(pipeline_list, n).dependencies :
            /\ i > 1
            /\ dep \in Listed(i - 1)
            /\ Len(execution_map[i - 1][2]) < cpu_count
            /\ \A k \in DOMAIN pipeline_list :
                  ~({n, dep} \subseteq {t.name : t \in Range(pipeline_list[k].tasks)})

\* C3: every trace entry lists at most cpu_count names, the no_group filler
\* included, and lists no name twice.
C3_SlotCapacity ==
    \A i \in DOMAIN execution_map :
        /\ Len(execution_map[i][2]) <= cpu_count
        /\ Cardinality(Listed(i)) = Len(execution_map[i][2])

\* A unit used every slot while a further task of the active group and the
\* head of the pool were both ready to run.
C3_Witness ==
    /\ pc = "returned"
    /\ cpu_count = 2
    /\ Len(execution_map[1][2]) = cpu_count
    /\ \A t \in AllTasks(pipeline_list) : t.dependencies = {}
    /\ Len(pipeline_list) = 2
    /\ \E k \in DOMAIN pipeline_list :
          pipeline_list[k].name = "no_group" /\ Len(pipeline_list[k].tasks) = 1

\* C4: no task of ordered group k+1 is listed before a unit strictly later
\* than the one in which the last task of group k completed, and the
\* active-group index never decreases and grows by at most one per unit.
C4_StatePart ==
    \A i \in DOMAIN execution_map : \A n \in Listed(i) :
        \A k \in DOMAIN task_list :
            (k > 1 /\ PosIn(task_list[k].tasks, n) > 0) =>
                \A j \in DOMAIN task_list[k - 1].tasks :
                    CompletedBy(task_list[k - 1].tasks[j].name, i - 1)

C4_GroupSerialization ==
    /\ [] C4_StatePart
    /\ [][family_index' \in {family_index, family_index + 1}]_vars

\* Two ordered groups ran to the end, the first of them over several units.
C4_Witness ==
    /\ pc = "returned"
    /\ Len(task_list) = 2
    /\ family_index = 2
    /\ Len(task_list[1].tasks) = 2
    /\ \E i \in DOMAIN execution_map : i > 2 /\ task_list[2].tasks[1].name \in Listed(i)

\* C5 (as claimed): for a pipeline without cycles, reorder_tasks applied to
\* its own output returns the order the first application returned.
C5_Idempotent ==
    (pc = "reordered_again" /\ \A k \in DOMAIN input_list : Acyclic(input_list[k].tasks))
        => pipeline_list = first_order

\* C6 (as claimed): for a fixed reordered pipeline, more slots never give a
\* longer trace; here for the slot count of the run and the next one.
C6_MakespanMonotone ==
    pc = "returned" => Makespan(pipeline_list, cpu_count + 1) <= Len(execution_map)

\* C7 (as claimed): with one slot, a pipeline of exactly one ordered group
\* and no no_group task runs exactly one task in every unit, and its
\* makespan is the sum of the durations.
SingleGroupOneSlot ==
    /\ pc = "returned"
    /\ cpu_count = 1
    /\ Len(pipeline_list) = 1
    /\ pipeline_list[1].name # "no_group"

SerialRun ==
    /\ Len(execution_map) = TotalDuration(pipeline_list)
    /\ \A i \in DOMAIN execution_map : Len(execution_map[i][2]) = 1

OrdererReturned == pc \in {"reordered", "reordered_again", "running", "returned"}

C8_CycleRejected ==
    (\E k \in DOMAIN input_list : ~Acyclic(input_list[k].tasks)) => ~OrdererReturned

\* C9 (as claimed): a unit that schedules nothing is the last one simulated,
\* and the call then ends in an outcome other than the plain return of the
\* trace that a complete run ends in.
C9_StallFlagged ==
    LastEntryEmpty => (pc # "running" /\ pc # "returned")

\* C10: the loop ends after at most (sum of all durations + 1) units, with
\* every task complete or at the first unit that schedules nothing; while
\* it has not ended, its condition holds and another unit follows.
C10_Terminates ==
    /\ minute <= TotalDuration(pipeline_list) + 1
    /\ Len(execution_map) = minute
    /\ \A i \in DOMAIN execution_map : i < minute => execution_map[i][2] # <<>>
    /\ pc = "running" =>
          /\ LoopCondition(task_list, family_index, task_time_remaining)
          /\ ~LastEntryEmpty
    /\ pc = "returned" =>
          \/ LastEntryEmpty
          \/ /\ completed_tasks = Names(pipeline_list)
             /\ DOMAIN task_time_remaining = {}
             /\ family_index = Len(task_list)

\* A run over a cyclic dependency ended at a unit that scheduled nothing,
\* after as many units as the durations sum to.
C10_Witness ==
    /\ pc = "returned"
    /\ LastEntryEmpty
    /\ ~Acyclic(FlatTasks(pipeline_list))
    /\ minute = TotalDuration(pipeline_list)
    /\ minute > 2

\* C11 (as claimed): for a fixed input, every execution of reorder_tasks
\* yields the same order, whatever the order in which the set of dependents
\* of a task is iterated.
C11_Deterministic ==
    pc = "reordered" => \A pl \in reorder_tasks(input_list) : pl = first_order

\* C16 (as claimed): two tasks of one group with no dependency path between
\* them in either direction keep their input order in the reordered group.
Unrelated(tasks, a, b) ==
    /\ ~DependsOn(tasks, a, b, Len(tasks))
    /\ ~DependsOn(tasks, b, a, Len(tasks))

C16_InputOrderTies ==
    pc = "reordered" =>
        \A k \in DOMAIN input_list :
            LET tasks == input_list[k].tasks
            IN \A i \in DOMAIN tasks : \A j \in DOMAIN tasks :
                  (i < j /\ Unrelated(tasks, tasks[i].name, tasks[j].name)) =>
                      PosIn(first_order[k].tasks, tasks[i].name)
                          < PosIn(first_order[k].tasks, tasks[j].name)

\* C18: reorder_tasks changes only the order of the tasks inside each group,
\* cyclic input included: the groups and their names stay as they were, and
\* each group's task list is a permutation of its input list, every task
\* with its name, duration and dependencies.
C18_OnlyOrderChanges ==
    pc # "loaded" =>
        /\ Len(pipeline_list) = Len(input_list)
        /\ \A k \in DOMAIN input_list :
              /\ pipeline_list[k].name = input_list[k].name
              /\ Len(pipeline_list[k].tasks) = Len(input_list[k].tasks)
              /\ Range(pipeline_list[k].tasks) = Range(input_list[k].tasks)

\* The orderer moved tasks in a pipeline of two groups, one of them with a
\* dependency cycle.
C18_Witness ==
    /\ pc = "reordered"
    /\ Len(input_list) = 2
    /\ \E k \in DOMAIN input_list : ~Acyclic(input_list[k].tasks)
    /\ \E k \in DOMAIN input_list :
          Len(input_list[k].tasks) = 2 /\ pipeline_list[k].tasks # input_list[k].tasks

\* The names of the tasks of the ordered groups, and the not yet completed
\* no_group tasks in the order the simulator was given.
OrderedNames == UNION {{t.name : t \in Range(task_list[k].tasks)} : k \in DOMAIN task_list}

PendingPool ==
    SelectSeq(InitialPool(pipeline_list), LAMBDA t : t.name \notin completed_tasks)

\* Ready at the start of the unit: not completed, every dependency completed.
ReadyAtStart(t) == t.name \notin completed_tasks /\ t.dependencies \subseteq completed_tasks

\* C12: in a unit with an active ordered group, the ordered-group tasks
\* listed are exactly the first min(C, n) of the n tasks of the active group
\* that were incomplete with all dependencies complete at the start of the
\* unit, in group order; no task of another ordered group is listed.
C12_UnitSelection ==
    (pc = "running" /\ family_index < Len(task_list)) =>
        LET ready    == SelectSeq(task_list[family_index + 1].tasks, ReadyAtStart)
            m        == IF Len(ready) < cpu_count THEN Len(ready) ELSE cpu_count
            expected == [k \in 1..m |-> ready[k].name]
            entry    == execution_map'[Len(execution_map')][2]
        IN SelectSeq(entry, LAMBDA x : x \in OrderedNames) = expected

C12_ActiveGroupSelection == [][C12_UnitSelection]_vars

\* With two slots, the first unit ran the second and third task of a group
\* of three whose first task was not ready.
C12_Witness ==
    /\ cpu_count = 2
    /\ Len(task_list) = 1
    /\ Len(task_list[1].tasks) = 3
    /\ execution_map # <<>>
    /\ execution_map[1][2] = <<task_list[1].tasks[2].name, task_list[1].tasks[3].name>>

\* C13: the no_group tasks listed in a unit are exactly the head of the pool
\* when the ordered groups used fewer than C slots in the unit and the
\* head's dependencies all completed in earlier units, and none otherwise.
C13_UnitFiller ==
    pc = "running" =>
        LET entry  == execution_map'[Len(execution_map')][2]
            used   == Len(SelectSeq(entry, LAMBDA x : x \in OrderedNames))
            filler == SelectSeq(entry, LAMBDA x : x \notin OrderedNames)
        IN IF /\ PendingPool # <<>>
              /\ used < cpu_count
              /\ PendingPool[1].dependencies \subseteq completed_tasks
           THEN filler = <<PendingPool[1].name>>
           ELSE filler = <<>>

C13_PoolHeadOnly == [][C13_UnitFiller]_vars

\* With two slots, one task of the group and the head of the pool ran in
\* the first unit while a second pool task, also ready, did not.
C13_Witness ==
    /\ cpu_count = 2
    /\ Len(task_list) = 1
    /\ Len(InitialPool(pipeline_list)) = 2
    /\ \A t \in AllTasks(pipeline_list) : t.dependencies = {}
    /\ execution_map # <<>>
    /\ execution_map[1][2] = <<task_list[1].tasks[1].name, InitialPool(pipeline_list)[1].name>>
    /\ InitialPool(pipeline_list)[1].execution_time = 2

\* C14 (as claimed): for a pipeline whose dependencies all name tasks and
\* form no cycle, when the run stops with incomplete tasks, no incomplete
\* task of the active ordered group and no incomplete task of the no_group
\* pool has all its dependencies completed.
C14_StallOnlyWhenNothingReady ==
    (pc = "returned" /\ LastEntryEmpty /\ WellFormed(pipeline_list)) =>
        /\ family_index < Len(task_list) =>
              \A t \in Range(task_list[family_index + 1].tasks) : ~ReadyAtStart(t)
        /\ \A t \in Range(no_group_tasks) : ~ReadyAtStart(t)

\* C15: the label of each trace entry is the name of the ordered group that
\* is active after the unit's advancement check, that is the first ordered
\* group with a task still incomplete at the end of the unit, or no_group
\* when there is none; so the unit in which group k's last task completes
\* is labelled with group k+1 (or no_group), though it lists tasks of k.
ActiveAfter(i) ==
    LET open == {k \in DOMAIN task_list :
                    \E t \in Range(task_list[k].tasks) : ~CompletedBy(t.name, i)}
    IN IF open = {} THEN "no_group"
       ELSE task_list[CHOOSE k \in open : \A j \in open : k <= j].name

C15_LabelAfterAdvance ==
    \A i \in DOMAIN execution_map : execution_map[i][3] = ActiveAfter(i)

\* Both kinds of hand-over happened in one run: an entry labelled G2 that
\* lists a task of G1, and an entry labelled no_group that lists a task of G2.
C15_Witness ==
    /\ Len(task_list) = 2
    /\ \E i \in DOMAIN execution_map :
          /\ execution_map[i][3] = task_list[2].name
          /\ \E t \in Range(task_list[1].tasks) : t.name \in Listed(i)
    /\ \E i \in DOMAIN execution_map :
          /\ execution_map[i][3] = "no_group"
          /\ \E t \in Range(task_list[2].tasks) : t.name \in Listed(i)

\* C17: at the end of every unit the completed set and the keys of the
\* remaining-duration map are disjoint and together are all task names;
\* every remaining duration is between 1 and the initial one (the initial
\* one less the units the task ran); the pool holds exactly the no_group
\* tasks not completed; a task enters the completed set in the step in which
\* its remaining duration reaches 0 and its key is removed, and never leaves.
C17_StatePart ==
    pc \in {"running", "returned"} =>
        /\ completed_tasks \cap DOMAIN task_time_remaining = {}
        /\ completed_tasks \cup DOMAIN task_time_remaining = Names(pipeline_list)
        /\ \A n \in DOMAIN task_time_remaining :
              /\ task_time_remaining[n] >= 1
              /\ task_time_remaining[n] <= TaskOf(pipeline_list, n).execution_time
              /\ task_time_remaining[n]
                    = TaskOf(pipeline_list, n).execution_time - UnitsRun(n, minute)
        /\ \A n \in completed_tasks : CompletedBy(n, minute)
        /\ no_group_tasks = PendingPool

C17_StepPart ==
    /\ completed_tasks \subseteq completed_tasks'
    /\ \A n \in completed_tasks' \ completed_tasks :
          /\ n \in DOMAIN task_time_remaining
          /\ task_time_remaining[n] = 1
          /\ n \notin DOMAIN task_time_remaining'
          /\ n \in Range(execution_map'[Len(execution_map')][2])

C17_Bookkeeping == ([] C17_StatePart) /\ [][C17_StepPart]_vars

\* Mid-run: a task is completed, another has run without completing, and
\* the pool has lost its first task but not its second.
C17_Witness ==
    /\ pc = "running"
    /\ completed_tasks # {}
    /\ \E n \in DOMAIN task_time_remaining :
          task_time_remaining[n] < TaskOf(pipeline_list, n).execution_time
    /\ Len(InitialPool(pipeline_list)) = 2
    /\ Len(no_group_tasks) = 1

\* C19: each task name is listed in at most as many trace entries as its
\* initial duration; when the run ends without a stall (last entry not
\* empty) every task of every group, no_group included, is listed exactly
\* that often, every ordered group is exhausted and the pool is empty.
C19_WorkConservation ==
    /\ \A t \in AllTasks(pipeline_list) :
          UnitsRun(t.name, Len(execution_map)) <= t.execution_time
    /\ (pc = "returned" /\ ~LastEntryEmpty) =>
          /\ \A t \in AllTasks(pipeline_list) :
                UnitsRun(t.name, Len(execution_map)) = t.execution_time
          /\ family_index = Len(task_list)
          /\ no_group_tasks = <<>>

\* A run over two ordered groups and a pool ended complete although the
\* last ordered group was exhausted two units or more before the pool.
C19_Witness ==
    /\ pc = "returned"
    /\ ~LastEntryEmpty
    /\ Len(task_list) = 2
    /\ InitialPool(pipeline_list) # <<>>
    /\ Len(execution_map) > 3
    /\ execution_map[Len(execution_map) - 1][3] = "no_group"

\* C20: a task that declares a dependency name no task of the pipeline has
\* is never listed in any entry, and a run over a pipeline with such a task
\* ends in a stall: the last entry is empty and the task is incomplete.
C20_UnknownDependencyStalls ==
    \A t \in AllTasks(pipeline_list) :
        ~(t.dependencies \subseteq Names(pipeline_list)) =>
            /\ \A i \in DOMAIN execution_map : t.name \notin Listed(i)
            /\ pc = "returned" =>
                  /\ LastEntryEmpty
                  /\ t.name \notin completed_tasks
                  /\ t.name \in DOMAIN task_time_remaining

\* Two tasks ran to completion before the run stalled on a third that
\* depends on an unknown name.
C20_Witness ==
    /\ pc = "returned"
    /\ Cardinality(completed_tasks) = 2
    /\ Len(execution_map) > 2
    /\ \E t \in AllTasks(pipeline_list) : UnknownName \in t.dependencies

====
